---- MODULE Spec2Model ----
(***************************************************************************)
(* EVChargeModeler: the discounted-cash-flow routines of the repository    *)
(* (server calculateDCF, library calculateDCF, calculateRealtimeDCF, the   *)
(* live form in App) and the request handlers that feed them.              *)
(*                                                                         *)
(* JavaScript numbers are modelled as decimal floating-point values        *)
(* <<m, e>> = m * 10^e with an 8-digit mantissa, every operation rounded   *)
(* to the mantissa as an IEEE operation is rounded to 53 bits.  The three  *)
(* non-finite values NaN, Infinity and -Infinity are kept apart from the   *)
(* finite ones; zero is unsigned.                                          *)
(***************************************************************************)
EXTENDS Integers, Sequences, FiniteSets, TLC

--------------------------------------------------------------------------
(* Numbers *)

Mant == 10 ^ 8
MantMin == 10 ^ 7
NonFinite == 10 ^ 6

NaN == <<0, NonFinite>>
PosInf == <<1, NonFinite>>
NegInf == <<-1, NonFinite>>
Zero == <<0, 0>>

IsFinite(x) == x[2] # NonFinite
IsNaN(x) == x = NaN
IsZero(x) == x = Zero

AbsInt(n) == IF n < 0 THEN -n ELSE n
SignInt(n) == IF n < 0 THEN -1 ELSE IF n > 0 THEN 1 ELSE 0

Half == 10 ^ 4

\* a * b / MantMin rounded to the nearest integer, for 0 <= a, b < Mant:
\* the product is formed from 4-digit halves so that no intermediate value
\* leaves the 32-bit integers
MulTop(a, b) ==
  LET a1 == a \div Half
      a0 == a % Half
      b1 == b \div Half
      b0 == b % Half
      w  == (a1 * b0 + a0 * b1) * 10 + ((a0 * b0) \div 1000)
  IN  a1 * b1 * 10 + ((w + (Half \div 2)) \div Half)

\* a * Mant / c rounded to the nearest integer, for 0 < a < 10 * c and
\* c < Mant: long division, one decimal digit at a time
DivTop(a, c) ==
  LET r0 == a % c
      r1 == (10 * r0) % c
      r2 == (10 * r1) % c
      r3 == (10 * r2) % c
      r4 == (10 * r3) % c
      r5 == (10 * r4) % c
      r6 == (10 * r5) % c
      r7 == (10 * r6) % c
      q  == ((((((((a \div c) * 10 + ((10 * r0) \div c)) * 10
                 + ((10 * r1) \div c)) * 10 + ((10 * r2) \div c)) * 10
                 + ((10 * r3) \div c)) * 10 + ((10 * r4) \div c)) * 10
                 + ((10 * r5) \div c)) * 10 + ((10 * r6) \div c)) * 10
                 + ((10 * r7) \div c)
  IN  q + (IF 2 * ((10 * r7) % c) >= c THEN 1 ELSE 0)

\* n / d rounded to the nearest integer, halves away from zero (d > 0)
RoundDiv(n, d) == SignInt(n) * ((AbsInt(n) + (d \div 2)) \div d)

\* the number m * 10^e with its mantissa brought into [MantMin, Mant)
Norm(m, e) ==
  LET a == AbsInt(m)
  IN  IF m = 0 THEN Zero
      ELSE IF a >= 10 * Mant
        THEN IF (a + 50) \div 100 >= Mant THEN <<SignInt(m) * MantMin, e + 3>>
             ELSE <<RoundDiv(m, 100), e + 2>>
      ELSE IF a >= Mant
        THEN IF (a + 5) \div 10 >= Mant THEN <<SignInt(m) * MantMin, e + 2>>
             ELSE <<RoundDiv(m, 10), e + 1>>
      ELSE IF a >= MantMin THEN <<m, e>>
      ELSE IF a >= 10 ^ 6 THEN <<m * 10, e - 1>>
      ELSE IF a >= 10 ^ 5 THEN <<m * 10 ^ 2, e - 2>>
      ELSE IF a >= 10 ^ 4 THEN <<m * 10 ^ 3, e - 3>>
      ELSE IF a >= 10 ^ 3 THEN <<m * 10 ^ 4, e - 4>>
      ELSE IF a >= 10 ^ 2 THEN <<m * 10 ^ 5, e - 5>>
      ELSE IF a >= 10 THEN <<m * 10 ^ 6, e - 6>>
      ELSE <<m * 10 ^ 7, e - 7>>

Num(n) == Norm(n, 0)
Dec(m, e) == Norm(m, e)

Neg(x) == <<-x[1], x[2]>>
Abs(x) == <<AbsInt(x[1]), x[2]>>

\* x + y
Add(x, y) ==
  IF IsNaN(x) \/ IsNaN(y) THEN NaN
  ELSE IF ~IsFinite(x) THEN (IF ~IsFinite(y) /\ y # x THEN NaN ELSE x)
  ELSE IF ~IsFinite(y) THEN y
  ELSE IF IsZero(x) THEN y
  ELSE IF IsZero(y) THEN x
  ELSE LET hi == IF x[2] >= y[2] THEN x ELSE y
           lo == IF x[2] >= y[2] THEN y ELSE x
           d  == hi[2] - lo[2]
       IN  IF d > 9 THEN hi
           ELSE IF d = 0 THEN Norm(hi[1] + lo[1], hi[2])
           ELSE Norm(hi[1] * 10 + RoundDiv(lo[1], 10 ^ (d - 1)), hi[2] - 1)

Sub(x, y) == Add(x, Neg(y))

\* x * y
Mul(x, y) ==
  IF IsNaN(x) \/ IsNaN(y) THEN NaN
  ELSE IF ~IsFinite(x) \/ ~IsFinite(y)
    THEN (IF x[1] = 0 \/ y[1] = 0 THEN NaN
          ELSE <<SignInt(x[1]) * SignInt(y[1]), NonFinite>>)
  ELSE IF IsZero(x) \/ IsZero(y) THEN Zero
  ELSE Norm(SignInt(x[1]) * SignInt(y[1]) * MulTop(AbsInt(x[1]), AbsInt(y[1])),
            x[2] + y[2] + 7)

\* x / y, with JavaScript's results for a zero divisor
Div(x, y) ==
  IF IsNaN(x) \/ IsNaN(y) THEN NaN
  ELSE IF ~IsFinite(x)
    THEN (IF ~IsFinite(y) THEN NaN
          ELSE <<x[1] * (IF y[1] < 0 THEN -1 ELSE 1), NonFinite>>)
  ELSE IF ~IsFinite(y) THEN Zero
  ELSE IF IsZero(y)
    THEN (IF IsZero(x) THEN NaN ELSE <<SignInt(x[1]), NonFinite>>)
  ELSE IF IsZero(x) THEN Zero
  ELSE Norm(SignInt(x[1]) * SignInt(y[1]) * DivTop(AbsInt(x[1]), AbsInt(y[1])),
            x[2] - y[2] - 8)

\* x < y (false when either is NaN)
Lt(x, y) ==
  IF IsNaN(x) \/ IsNaN(y) THEN FALSE
  ELSE IF ~IsFinite(x) THEN x = NegInf /\ y # NegInf
  ELSE IF ~IsFinite(y) THEN y = PosInf
  ELSE IF SignInt(x[1]) # SignInt(y[1]) THEN SignInt(x[1]) < SignInt(y[1])
  ELSE IF x[1] = 0 THEN FALSE
  ELSE IF x[2] # y[2] THEN (IF x[1] > 0 THEN x[2] < y[2] ELSE x[2] > y[2])
  ELSE x[1] < y[1]

Gt(x, y) == Lt(y, x)
Le(x, y) == ~IsNaN(x) /\ ~IsNaN(y) /\ ~Lt(y, x)
Ge(x, y) == Le(y, x)

\* Math.min(x, y)
Min(x, y) == IF IsNaN(x) \/ IsNaN(y) THEN NaN ELSE IF Lt(y, x) THEN y ELSE x

\* Math.round(x): the nearest integer, halves towards +Infinity
Round(x) ==
  IF ~IsFinite(x) \/ x[2] >= 0 THEN x
  ELSE IF x[2] < -9 THEN Zero
  ELSE Norm((2 * x[1] + 10 ^ (-x[2])) \div (2 * 10 ^ (-x[2])), 0)

\* Math.pow(x, i) for an integer i >= 0
RECURSIVE Pow(_, _)
Pow(x, i) ==
  IF i = 0 THEN Num(1)
  ELSE LET h == Pow(x, i \div 2)
           hh == Mul(h, h)
       IN  IF i % 2 = 1 THEN Mul(hh, x) ELSE hh

\* a truthy number: neither 0 nor NaN
Truthy(x) == ~IsZero(x) /\ ~IsNaN(x)

--------------------------------------------------------------------------
(* Values at the input boundaries *)

\* A decimal string such as "0.45" is the pair <<45, -2>>; a field that is
\* undefined or the empty string is Absent.
Absent == <<>>
Str(m, e) == <<m, e>>

\* parseFloat(s)
ParseFloat(s) == IF s = Absent THEN NaN ELSE Norm(s[1], s[2])

\* s || d for a string s
OrElse(s, d) == IF s = Absent THEN d ELSE s

\* An integer field n is the tuple <<n>>.
IntField(n) == <<n>>

\* n || d for an integer field n (undefined, and 0, give d)
OrElseInt(n, d) == IF n = Absent \/ n = IntField(0) THEN d ELSE n[1]

VARIABLES
  fn,         \* the routine this behaviour runs
  input,      \* the value at the input boundary: request body, form values, DCFInputs
  pc,         \* position in the routine
  args,       \* the routine's destructured parameters
  cashFlows,  \* the routine's cashFlows array (cashFlows[1] is year 0)
  npv,        \* the routine's npv local
  irr,        \* the routine's irr local
  rate,       \* server: the scan's loop variable
  irrLow,     \* library: lower end of the bisection bracket
  irrHigh,    \* library: upper end of the bisection bracket
  iter,       \* iterations of the IRR loop begun so far
  result,     \* the record the routine returned, or NoResult
  projects,   \* rows of the projects table
  response,   \* HTTP status of the request, 0 before the response
  calls,      \* the calls of the routines completed so far: parameters and result
  sowDocuments,   \* rows of the sow_documents table
  uploadedFiles,  \* upload modal: the pending list
  mutation        \* upload modal: the upload mutation and the requests of its batch

vars == <<fn, input, pc, args, cashFlows, npv, irr, rate, irrLow, irrHigh,
          iter, result, projects, response, calls, sowDocuments, uploadedFiles,
          mutation>>

\* the SOW documents and the upload modal
docVars == <<sowDocuments, uploadedFiles, mutation>>

\* the longest project life among the inputs
MaxProjectLife == 2

\* the most calculations one behaviour runs
MaxCalculations == 3

NoResult == [none |-> TRUE]
NoArgs == [none |-> TRUE]

\* a completed call: the routine, the parameters it ran with, what it returned
Call(routine, a, res) == [routine |-> routine, args |-> a, result |-> res]

--------------------------------------------------------------------------
(* Present value *)

\* the loop npvAtRate += cashFlows[i] / Math.pow(1 + rate, i) from index i on,
\* with npvAtRate = acc so far (cashFlows[i] is cfs[i + 1]); a NaN sum stays NaN
RECURSIVE NPVFrom(_, _, _, _)
NPVFrom(cfs, r, i, acc) ==
  IF i >= Len(cfs) \/ IsNaN(acc) THEN acc
  ELSE NPVFrom(cfs, r, i + 1, Add(acc, Div(cfs[i + 1], Pow(Add(Num(1), r), i))))

\* a present value that takes the year 0 outlay off a second time
NPVLessOutlay(cfs, r) == Add(NPVFrom(cfs, r, 0, Zero), cfs[1])

calculateNPVAtRate(cfs, r) == NPVFrom(cfs, r, 0, Zero)

--------------------------------------------------------------------------
(* server/routes.ts: calculateDCF and POST /api/projects *)

\* a scan that goes on from where the previous calculation's scan stopped
ScanResume == rate

ScanStart == Dec(1, -2)
ScanEnd == Dec(5, -1)
ScanStep == Dec(1, -2)
\* the passes of the scan: the rates 0.01, 0.02, ..., 0.49
ScanPasses == 49

\* the argument record POST /api/projects builds from the parsed body
PostArgs(body) ==
  [capex |-> ParseFloat(body.capex),
   opex |-> ParseFloat(body.opex),
   chargerCount |-> OrElseInt(body.chargerCount, 4),
   peakUtilization |-> Div(ParseFloat(body.peakUtilization), Num(100)),
   chargingRate |-> ParseFloat(body.chargingRate),
   lcfsCredits |-> IF body.lcfsCredits # Absent THEN ParseFloat(body.lcfsCredits) ELSE Zero,
   stateRebate |-> IF body.stateRebate # Absent THEN ParseFloat(body.stateRebate) ELSE Zero,
   projectLife |-> OrElseInt(body.projectLife, 10),
   discountRate |-> IF body.discountRate # Absent
                      THEN Div(ParseFloat(body.discountRate), Num(100))
                      ELSE Dec(10, -2)]

\* insertProjectSchema.parse: the columns that are notNull without a default
\* must be present
SchemaAccepts(body) ==
  /\ body.capex # Absent
  /\ body.opex # Absent
  /\ body.peakUtilization # Absent
  /\ body.chargingRate # Absent

ServerAnnualKWh(a) ==
  Mul(Mul(Mul(Num(a.chargerCount), a.peakUtilization), Num(365)), Num(1000))

\* a year 0 that leaves the rebate out
ServerYear0Gross(a) == Neg(Mul(a.capex, Num(a.chargerCount)))

ServerYear0(a) == Neg(Sub(Mul(a.capex, Num(a.chargerCount)), a.stateRebate))

ServerYearFlow(a) ==
  LET annualKWh == ServerAnnualKWh(a)
      revenue == Mul(annualKWh, a.chargingRate)
      lcfsRevenue == Mul(Mul(annualKWh, Dec(4, -4)), a.lcfsCredits)
      costs == a.opex
  IN  Sub(Add(revenue, lcfsRevenue), costs)

ServerCashFlows(a) ==
  <<ServerYear0(a)>> \o [year \in 1 .. a.projectLife |-> ServerYearFlow(a)]

ServerLCOC(a) ==
  LET totalCosts == Add(Mul(a.capex, Num(a.chargerCount)),
                        Mul(a.opex, Num(a.projectLife)))
      totalKWh == Mul(ServerAnnualKWh(a), Num(a.projectLife))
  IN  Div(totalCosts, totalKWh)

\* irr as percentage points with 2 decimals: Math.round(irr * 10000) / 100
RoundPercent(x) == Div(Round(Mul(x, Num(10000))), Num(100))
\* Math.round(lcoc * 1000) / 1000
RoundMilli(x) == Div(Round(Mul(x, Num(1000))), Num(1000))

ServerResult(a, cfs, n, i) ==
  [npv |-> Round(n), irr |-> RoundPercent(i), lcoc |-> RoundMilli(ServerLCOC(a)),
   cashFlows |-> cfs]

\* the scan adopts a rate whose present value is nearer zero than npv
ScanImproves(testNpv, n) == Lt(Abs(testNpv), Abs(n))

\* the input columns of the projects table
Columns ==
  {"chargerCount", "capex", "opex", "peakUtilization", "chargingRate",
   "lcfsCredits", "stateRebate", "projectLife", "discountRate"}

\* the input columns of the row inserted for a body: the handler sets a
\* missing chargerCount to 4, the table defaults projectLife to 10 and
\* discountRate to "0.10"
StoredColumns(body) ==
  [c \in Columns |->
     CASE c = "chargerCount" -> IntField(OrElseInt(body.chargerCount, 4))
       [] c = "projectLife" ->
            IF body.projectLife = Absent THEN IntField(10) ELSE body.projectLife
       [] c = "discountRate" ->
            IF body.discountRate = Absent THEN Str(10, -2) ELSE body.discountRate
       [] OTHER -> body[c]]

\* the row storage.createProject inserts
ProjectRow(columns, res) ==
  [columns |-> columns, npv |-> res.npv, irr |-> res.irr, lcoc |-> res.lcoc,
   cashFlows |-> res.cashFlows]

\* x fits a decimal column with the given number of digits before the point
\* (NaN does, an infinity does not)
FitsDecimal(x, digits) == IsNaN(x) \/ (IsFinite(x) /\ Lt(Abs(x), Dec(1, digits)))

\* the computed metrics fit npv decimal(12, 2), irr and lcoc decimal(5, 3);
\* otherwise the insert or update throws
Storable(res) ==
  /\ FitsDecimal(res.npv, 10)
  /\ FitsDecimal(res.irr, 2)
  /\ FitsDecimal(res.lcoc, 2)

\* { ...existingProject, ...projectData }
Merge(existing, data) ==
  [c \in Columns |-> IF data[c] # Absent THEN data[c] ELSE existing[c]]

\* PUT recalculates when the body holds one of these (truthy) fields
PutRecalculates(data) ==
  \/ data.capex # Absent
  \/ data.opex # Absent
  \/ (data.chargerCount # Absent /\ data.chargerCount # IntField(0))
  \/ data.peakUtilization # Absent
  \/ data.chargingRate # Absent
  \/ data.lcfsCredits # Absent
  \/ data.stateRebate # Absent

\* the argument record PUT /api/projects/:id builds from the merged row
PutArgs(updatedData) ==
  [capex |-> ParseFloat(updatedData.capex),
   opex |-> ParseFloat(updatedData.opex),
   chargerCount |-> updatedData.chargerCount[1],
   peakUtilization |-> Div(ParseFloat(updatedData.peakUtilization), Num(100)),
   chargingRate |-> ParseFloat(updatedData.chargingRate),
   lcfsCredits |-> IF updatedData.lcfsCredits # Absent
                     THEN ParseFloat(updatedData.lcfsCredits) ELSE Zero,
   stateRebate |-> IF updatedData.stateRebate # Absent
                     THEN ParseFloat(updatedData.stateRebate) ELSE Zero,
   projectLife |-> OrElseInt(updatedData.projectLife, 10),
   discountRate |-> IF updatedData.discountRate # Absent
                      THEN Div(ParseFloat(updatedData.discountRate), Num(100))
                      ELSE Dec(10, -2)]

\* a PUT body: every column absent
NoColumns == [c \in Columns |-> Absent]

\* the bodies of the update requests
PutBodies ==
  {[NoColumns EXCEPT !.chargingRate = Str(5, -1)],
   [NoColumns EXCEPT !.chargingRate = Str(4, -1)]}

\* changes that enter the rebate as a lower CapEx per charger instead: 50000
\* over 8 chargers of 100000 each, 100000 over 4 chargers of 100000 each
RebateFolds ==
  {[NoColumns EXCEPT !.capex = Str(93750, 0), !.stateRebate = Str(0, 0)],
   [NoColumns EXCEPT !.capex = Str(75000, 0), !.stateRebate = Str(0, 0)]}

\* the changes made to stored or entered values: a new charging rate, and,
\* where a rebate was entered, the rebate folded into the CapEx
ChangesTo(values) ==
  PutBodies \cup (IF values.stateRebate # Absent THEN RebateFolds ELSE {})

\* the schema rejects the body: the catch block answers 500
PostRejected ==
  /\ UNCHANGED docVars
  /\ fn = "server" /\ pc = "call"
  /\ ~SchemaAccepts(input)
  /\ response' = 500
  /\ pc' = "done"
  /\ UNCHANGED <<fn, input, args, cashFlows, npv, irr, rate, irrLow, irrHigh,
                 iter, result, projects, calls>>

\* calculateDCF up to the IRR scan
PostProject ==
  /\ UNCHANGED docVars
  /\ fn = "server" /\ pc = "call"
  /\ SchemaAccepts(input)
  /\ LET a == PostArgs(input)
         cfs == ServerCashFlows(a)
     IN  /\ args' = a
         /\ cashFlows' = cfs
         /\ npv' = calculateNPVAtRate(cfs, a.discountRate)
         /\ irr' = a.discountRate
  /\ rate' = ScanStart
  /\ iter' = 0
  /\ pc' = "server_irr"
  /\ UNCHANGED <<fn, input, irrLow, irrHigh, result, projects, response, calls>>

\* the loop test rate <= 0.5.  rate accumulates binary 0.01s and lies above
\* its decimal value (0.49000000000000027 after 48 additions), so its fiftieth
\* value is 0.5000000000000002 and fails the test: on the decimal rate of the
\* model the loop goes on while rate < 0.5
ScanContinues(r) == Lt(r, ScanEnd)

\* one pass of for (rate = 0.01; rate <= 0.5; rate += 0.01)
ServerIRRStep ==
  /\ UNCHANGED docVars
  /\ pc = "server_irr"
  /\ ScanContinues(rate)
  /\ LET testNpv == calculateNPVAtRate(cashFlows, rate)
     IN  IF ScanImproves(testNpv, npv)
           THEN irr' = rate /\ npv' = testNpv
           ELSE UNCHANGED <<irr, npv>>
  /\ rate' = Add(rate, ScanStep)
  /\ iter' = iter + 1
  /\ UNCHANGED <<fn, input, pc, args, cashFlows, irrLow, irrHigh, result,
                 projects, response, calls>>

\* the scan is over: LCOC, the returned record, and the handler stores the
\* row (POST inserts it and answers 201, PUT updates it and answers 200); a
\* metric that does not fit its column makes the statement throw: 500
ServerFinish ==
  /\ UNCHANGED docVars
  /\ pc = "server_irr"
  /\ ~ScanContinues(rate)
  /\ LET res == ServerResult(args, cashFlows, npv, irr)
     IN  /\ result' = res
         /\ IF ~Storable(res)
              THEN response' = 500 /\ UNCHANGED projects
            ELSE IF fn = "server"
              THEN /\ projects' = Append(projects, ProjectRow(StoredColumns(input), res))
                   /\ response' = 201
            ELSE /\ projects' = [projects EXCEPT
                                   ![1] = ProjectRow(Merge(@.columns, input), res)]
                 /\ response' = 200
  /\ calls' = Append(calls, Call("server", args, result'))
  /\ pc' = "done"
  /\ UNCHANGED <<fn, input, args, cashFlows, npv, irr, rate, irrLow, irrHigh, iter>>

\* PUT /api/projects/:id for the stored project, with a body that changes a
\* financial input: calculateDCF on the merged row, up to the IRR scan
PutProject ==
  /\ UNCHANGED docVars
  /\ fn \in {"server", "put"} /\ pc = "done"
  /\ projects # <<>>
  /\ Len(calls) < MaxCalculations
  /\ \E data \in ChangesTo(projects[1].columns) :
       /\ PutRecalculates(data)
       /\ input' = data
       /\ LET a == PutArgs(Merge(projects[1].columns, data))
              cfs == ServerCashFlows(a)
          IN  /\ args' = a
              /\ cashFlows' = cfs
              /\ npv' = calculateNPVAtRate(cfs, a.discountRate)
              /\ irr' = a.discountRate
  /\ fn' = "put"
  /\ rate' = ScanStart
  /\ iter' = 0
  /\ result' = NoResult
  /\ response' = 0
  /\ pc' = "server_irr"
  /\ UNCHANGED <<irrLow, irrHigh, projects, calls>>

----------------------------------------------------------------\* bodies of update requests that hold none of the fields PUT tests
PlainBodies ==
  {[NoColumns EXCEPT !.projectLife = IntField(MaxProjectLife)],
   [NoColumns EXCEPT !.discountRate = Str(8, 0)]}

\* the ids requests name: the row numbers 1 and 2 (one project is created)
ProjectIds == {1, 2}

\* storage.getProject(id) finds a row
Stored(id) == id \in 1 .. Len(projects)

\* PUT /api/projects/:id for the stored project, with a body that holds none
\* of the tested fields: dcfResults stays undefined and updateProject sets
\* the columns of the body
PutProjectPlain ==
  /\ UNCHANGED docVars
  /\ fn \in {"server", "put"} /\ pc = "done"
  /\ Stored(1)
  /\ \E data \in PlainBodies :
       /\ ~PutRecalculates(data)
       /\ input' = data
       /\ projects' = [projects EXCEPT ![1].columns = Merge(@, data)]
  /\ fn' = "update"
  /\ args' = [id |-> 1]
  /\ result' = NoResult
  /\ response' = 200
  /\ UNCHANGED <<pc, cashFlows, npv, irr, rate, irrLow, irrHigh, iter, calls>>

\* PUT /api/projects/:id for an id without a row: 404 from the recalculation
\* branch; otherwise updateProject matches no row, returns undefined, and
\* res.json(undefined) answers 200
PutMissing ==
  /\ UNCHANGED docVars
  /\ fn \in {"server", "put"} /\ pc = "done"
  /\ \E id \in ProjectIds, data \in PutBodies \cup PlainBodies :
       /\ ~Stored(id)
       /\ input' = data
       /\ args' = [id |-> id]
       /\ response' = IF PutRecalculates(data) THEN 404 ELSE 200
  /\ fn' = "put_missing"
  /\ result' = NoResult
  /\ UNCHANGED <<pc, cashFlows, npv, irr, rate, irrLow, irrHigh, iter, projects,
                 calls>>

\* GET /api/projects/:id
GetProject ==
  /\ UNCHANGED docVars
  /\ fn \in {"server", "put"} /\ pc = "done"
  /\ \E id \in ProjectIds :
       /\ args' = [id |-> id]
       /\ IF Stored(id)
            THEN result' = projects[id] /\ response' = 200
            ELSE result' = NoResult /\ response' = 404
  /\ fn' = "get"
  /\ UNCHANGED <<input, pc, cashFlows, npv, irr, rate, irrLow, irrHigh, iter,
                 projects, calls>>

----------
(* library calculateDCF (lib/dcf-calculator) *)

\* v, or d when the property is undefined (a destructuring default)
Default(v, d) == IF v = Absent THEN d ELSE v

utilizationRampUp == Dec(7, -1)
irrLowInit == Dec(-99, -2)
irrHighInit == Num(10)
MaxBisections == 100

\* the parameters calculateDCF destructures from a DCFInputs record
LibArgs(inp) ==
  [capex |-> inp.capex,
   opex |-> inp.opex,
   chargerCount |-> inp.chargerCount,
   peakUtilization |-> inp.peakUtilization,
   chargingRate |-> inp.chargingRate,
   lcfsCredits |-> Default(inp.lcfsCredits, Zero),
   stateRebate |-> Default(inp.stateRebate, Zero),
   discountRate |-> Default(inp.discountRate, Dec(10, -2)),
   projectLife |-> Default(inp.projectLife, IntField(10))[1]]

\* the utilization the routine multiplies the charger's capacity by
LibUtilization(a) == Div(a.peakUtilization, Num(100))

LibTotalAnnualKWh(a) ==
  LET annualKWhPerCharger ==
        Mul(Mul(Mul(Num(350), Num(16)), Num(365)), LibUtilization(a))
  IN  Mul(annualKWhPerCharger, Num(a.chargerCount))

\* Math.min(1, utilizationRampUp + ((1 - utilizationRampUp) * k / 2)), k = year - 1
LibUtilizationFactor(k) ==
  Min(Num(1), Add(utilizationRampUp,
                  Div(Mul(Sub(Num(1), utilizationRampUp), Num(k)), Num(2))))

LibYear0(a) == Neg(Sub(a.capex, a.stateRebate))

LibYearFlow(a, year) ==
  LET totalAnnualKWh == LibTotalAnnualKWh(a)
      annualLCFSRevenue == Mul(Mul(totalAnnualKWh, Dec(4, -4)), a.lcfsCredits)
      utilizationFactor == LibUtilizationFactor(year - 1)
      yearlyKWh == Mul(totalAnnualKWh, utilizationFactor)
      yearlyRevenue == Mul(yearlyKWh, a.chargingRate)
      yearlyLCFS == Mul(annualLCFSRevenue, utilizationFactor)
      electricityCost == Mul(yearlyKWh, Dec(12, -2))
      totalOpex == Add(a.opex, electricityCost)
  IN  Sub(Add(yearlyRevenue, yearlyLCFS), totalOpex)

LibCashFlows(a) ==
  <<LibYear0(a)>> \o [year \in 1 .. a.projectLife |-> LibYearFlow(a, year)]

\* reduce((sum, x, index) => sum + x / Math.pow(1 + r, index + 1), 0) from
\* index i on, with sum = acc so far (element index is amounts[index + 1])
RECURSIVE DiscountedFrom(_, _, _, _)
DiscountedFrom(amounts, r, i, acc) ==
  IF i >= Len(amounts) \/ IsNaN(acc) THEN acc
  ELSE DiscountedFrom(amounts, r, i + 1,
         Add(acc, Div(amounts[i + 1], Pow(Add(Num(1), r), i + 1))))

LibLCOC(a, cfs) ==
  LET totalAnnualKWh == LibTotalAnnualKWh(a)
      n == Len(cfs) - 1
      opexPortion == Add(a.opex, Mul(totalAnnualKWh, Dec(12, -2)))
      totalPresentValueCosts ==
        Add(Abs(cfs[1]),
            DiscountedFrom([index \in 1 .. n |-> opexPortion], a.discountRate, 0, Zero))
      totalPresentValuekWh ==
        DiscountedFrom([index \in 1 .. n |->
                          Mul(totalAnnualKWh, LibUtilizationFactor(index - 1))],
                       a.discountRate, 0, Zero)
  IN  Div(totalPresentValueCosts, totalPresentValuekWh)

LibResult(a, cfs, n, i) ==
  [npv |-> Round(n), irr |-> i, lcoc |-> LibLCOC(a, cfs),
   cashFlows |-> [k \in 1 .. Len(cfs) |-> Round(cfs[k])]]

\* for (let iteration = 0; iteration < 100; iteration++)
BisectionContinues(i) == i < MaxBisections

\* Math.abs(npvAtIRR) < 1
\* a break at a present value below 100
BisectionConvergedLoosely(npvAtIRR) == Lt(Abs(npvAtIRR), Num(100))

BisectionConverged(npvAtIRR) == Lt(Abs(npvAtIRR), Num(1))

\* a test that sends the search below a midpoint of positive present value
RootBelow(npvAtIRR) == Lt(npvAtIRR, Zero)

\* npvAtIRR > 0: the root lies above the midpoint
RootAbove(npvAtIRR) == Gt(npvAtIRR, Zero)

\* calculateDCF up to the binary search
LibCall ==
  /\ UNCHANGED docVars
  /\ fn = "lib" /\ pc = "call"
  /\ LET a == LibArgs(input)
         cfs == LibCashFlows(a)
     IN  /\ args' = a
         /\ cashFlows' = cfs
         /\ npv' = calculateNPVAtRate(cfs, a.discountRate)
  /\ irrLow' = irrLowInit
  /\ irrHigh' = irrHighInit
  /\ irr' = Zero
  /\ iter' = 0
  /\ pc' = "lib_irr"
  /\ UNCHANGED <<fn, input, rate, result, projects, response, calls>>

\* one pass of the binary search
LibIRRStep ==
  /\ UNCHANGED docVars
  /\ pc = "lib_irr"
  /\ BisectionContinues(iter)
  /\ LET mid == Div(Add(irrLow, irrHigh), Num(2))
         npvAtIRR == calculateNPVAtRate(cashFlows, mid)
     IN  /\ irr' = mid
         /\ IF BisectionConverged(npvAtIRR)
              THEN pc' = "lib_lcoc" /\ UNCHANGED <<irrLow, irrHigh>>
              ELSE /\ pc' = pc
                   /\ IF RootAbove(npvAtIRR)
                        THEN irrLow' = mid /\ UNCHANGED irrHigh
                        ELSE irrHigh' = mid /\ UNCHANGED irrLow
  /\ iter' = iter + 1
  /\ UNCHANGED <<fn, input, args, cashFlows, npv, rate, result, projects, response,
                 calls>>

\* the search is over: LCOC and the returned record
LibFinish ==
  /\ UNCHANGED docVars
  /\ \/ pc = "lib_lcoc"
     \/ pc = "lib_irr" /\ ~BisectionContinues(iter)
  /\ result' = LibResult(args, cashFlows, npv, irr)
  /\ calls' = Append(calls, Call("lib", args, result'))
  /\ pc' = "done"
  /\ UNCHANGED <<fn, input, args, cashFlows, npv, irr, rate, irrLow, irrHigh,
                 iter, projects, response>>

\* !x || x <= 0 for a number x that may be undefined (!NaN and !0 are true)
NotPositive(x) == x = Absent \/ IsNaN(x) \/ IsZero(x) \/ Le(x, Zero)

\* validateDCFInputs: the error messages, in the order they are pushed
validateDCFInputs(inputs) ==
  (IF NotPositive(inputs.capex)
     THEN <<"CapEx must be greater than 0">> ELSE <<>>)
  \o (IF NotPositive(inputs.opex)
        THEN <<"OpEx must be greater than 0">> ELSE <<>>)
  \o (IF inputs.chargerCount = 0 \/ inputs.chargerCount < 4 \/ inputs.chargerCount > 8
        THEN <<"Charger count must be between 4 and 8">> ELSE <<>>)
  \o (IF NotPositive(inputs.peakUtilization) \/ Gt(inputs.peakUtilization, Num(100))
        THEN <<"Peak utilization must be between 0 and 100%">> ELSE <<>>)
  \o (IF NotPositive(inputs.chargingRate)
        THEN <<"Charging rate must be greater than 0">> ELSE <<>>)

\* a caller validates a record
Validate ==
  /\ UNCHANGED docVars
  /\ fn = "validate" /\ pc = "call"
  /\ result' = [errors |-> validateDCFInputs(input)]
  /\ pc' = "done"
  /\ UNCHANGED <<fn, input, args, cashFlows, npv, irr, rate, irrLow, irrHigh,
                 iter, projects, response, calls>>

--------------------------------------------------------------------------
(* components/project-modal: calculateRealtimeDCF *)

irrSeed == Dec(10, -2)
maxIterations == 50
tolerance == Dec(1, -5)
irrMin == Dec(-99, -2)
irrMax == Num(10)

\* the locals calculateRealtimeDCF parses from the watched form values
RealtimeArgs(values) ==
  [capex |-> ParseFloat(OrElse(values.capex, Str(0, 0))),
   opex |-> ParseFloat(OrElse(values.opex, Str(0, 0))),
   chargerCount |-> OrElseInt(values.chargerCount, 4),
   peakUtilization |->
     Div(ParseFloat(OrElse(values.peakUtilization, Str(0, 0))), Num(100)),
   chargingRate |-> ParseFloat(OrElse(values.chargingRate, Str(0, 0))),
   lcfsCredits |-> ParseFloat(OrElse(values.lcfsCredits, Str(0, 0))),
   stateRebate |-> ParseFloat(OrElse(values.stateRebate, Str(0, 0))),
   projectLife |-> OrElseInt(values.projectLife, 10),
   discountRate |->
     Div(ParseFloat(OrElse(values.discountRate, Str(10, 0))), Num(100))]

\* if (!capex || !opex || !peakUtilization || !chargingRate)
RealtimeIncomplete(a) ==
  \/ ~Truthy(a.capex)
  \/ ~Truthy(a.opex)
  \/ ~Truthy(a.peakUtilization)
  \/ ~Truthy(a.chargingRate)

RealtimeEmpty == [npv |-> Zero, irr |-> Zero, lcoc |-> Zero, cashFlows |-> <<>>]

RealtimeTotalAnnualKWh(a) ==
  LET annualKWhPerCharger ==
        Mul(Mul(Mul(Num(350), Num(16)), Num(365)), a.peakUtilization)
  IN  Mul(annualKWhPerCharger, Num(a.chargerCount))

RealtimeYear0(a) ==
  LET initialInvestment == Sub(Mul(a.capex, Num(a.chargerCount)), a.stateRebate)
  IN  Neg(initialInvestment)

RealtimeYearFlow(a) ==
  LET totalAnnualKWh == RealtimeTotalAnnualKWh(a)
      revenue == Mul(totalAnnualKWh, a.chargingRate)
      lcfsRevenue == Mul(Mul(totalAnnualKWh, Dec(4, -4)), a.lcfsCredits)
      annualOpex == Mul(Mul(a.opex, a.capex), Num(a.chargerCount))
  IN  Sub(Add(revenue, lcfsRevenue), annualOpex)

RealtimeCashFlows(a) ==
  <<RealtimeYear0(a)>> \o [year \in 1 .. a.projectLife |-> RealtimeYearFlow(a)]

\* df -= t * cf / Math.pow(1 + irr, t + 1) for t = i .. length - 1, with
\* df = acc so far
RECURSIVE DerivativeFrom(_, _, _, _)
DerivativeFrom(cfs, r, t, acc) ==
  IF t >= Len(cfs) \/ IsNaN(acc) THEN acc
  ELSE DerivativeFrom(cfs, r, t + 1,
         Sub(acc, Div(Mul(Num(t), cfs[t + 1]), Pow(Add(Num(1), r), t + 1))))

\* irr - f / df
NewtonUpdate(cfs, r) ==
  LET f == calculateNPVAtRate(cfs, r)
      df == DerivativeFrom(cfs, r, 1, Zero)
  IN  Sub(r, Div(f, df))

\* if (irr < -0.99) irr = -0.99; if (irr > 10) irr = 10
Clamp(r) == IF Lt(r, irrMin) THEN irrMin ELSE IF Gt(r, irrMax) THEN irrMax ELSE r

\* the loop test with <= for <
NewtonContinuesOneMore(i) == i <= maxIterations

\* for (let iter = 0; iter < maxIterations; iter++)
NewtonContinues(i) == i < maxIterations

\* Math.abs(newIrr - irr) < tolerance
NewtonConverged(newIrr, r) == Lt(Abs(Sub(newIrr, r)), tolerance)

RealtimeLCOC(a) ==
  LET totalCapex == Mul(a.capex, Num(a.chargerCount))
      totalOpex == Mul(Mul(Mul(a.opex, a.capex), Num(a.chargerCount)), Num(a.projectLife))
      totalCosts == Sub(Add(totalCapex, totalOpex), a.stateRebate)
      totalKWh == Mul(RealtimeTotalAnnualKWh(a), Num(a.projectLife))
  IN  IF Gt(totalKWh, Zero) THEN Div(totalCosts, totalKWh) ELSE Zero

RealtimeResult(a, cfs, n, i) ==
  [npv |-> Round(n), irr |-> RoundPercent(i), lcoc |-> RoundMilli(RealtimeLCOC(a)),
   cashFlows |-> cfs]

\* a required field is empty: the routine returns zeros
RealtimeReturnEmpty ==
  /\ UNCHANGED docVars
  /\ fn = "realtime" /\ pc = "call"
  /\ RealtimeIncomplete(RealtimeArgs(input))
  /\ args' = RealtimeArgs(input)
  /\ result' = RealtimeEmpty
  /\ calls' = Append(calls, Call("realtime", args', result'))
  /\ pc' = "done"
  /\ UNCHANGED <<fn, input, cashFlows, npv, irr, rate, irrLow, irrHigh, iter,
                 projects, response>>

\* calculateRealtimeDCF up to the Newton-Raphson loop
RealtimeCall ==
  /\ UNCHANGED docVars
  /\ fn = "realtime" /\ pc = "call"
  /\ ~RealtimeIncomplete(RealtimeArgs(input))
  /\ LET a == RealtimeArgs(input)
         cfs == RealtimeCashFlows(a)
     IN  /\ args' = a
         /\ cashFlows' = cfs
         /\ npv' = calculateNPVAtRate(cfs, a.discountRate)
  /\ irr' = irrSeed
  /\ iter' = 0
  /\ pc' = "rt_irr"
  /\ UNCHANGED <<fn, input, rate, irrLow, irrHigh, result, projects, response,
                 calls>>

\* one pass of the Newton-Raphson loop
RealtimeIRRStep ==
  /\ UNCHANGED docVars
  /\ pc = "rt_irr"
  /\ NewtonContinues(iter)
  /\ LET newIrr == NewtonUpdate(cashFlows, irr)
     IN  IF NewtonConverged(newIrr, irr)
           THEN irr' = newIrr /\ pc' = "rt_lcoc"
           ELSE irr' = Clamp(newIrr) /\ pc' = pc
  /\ iter' = iter + 1
  /\ UNCHANGED <<fn, input, args, cashFlows, npv, rate, irrLow, irrHigh, result,
                 projects, response, calls>>

\* the loop is over: LCOC and the returned record
RealtimeFinish ==
  /\ UNCHANGED docVars
  /\ \/ pc = "rt_lcoc"
     \/ pc = "rt_irr" /\ ~NewtonContinues(iter)
  /\ result' = RealtimeResult(args, cashFlows, npv, irr)
  /\ calls' = Append(calls, Call("realtime", args, result'))
  /\ pc' = "done"
  /\ UNCHANGED <<fn, input, args, cashFlows, npv, irr, rate, irrLow, irrHigh,
                 iter, projects, response>>

\* the user edits fields of the open form: form.watch() returns the new
\* values and the effect calls calculateRealtimeDCF again
FormEdit ==
  /\ UNCHANGED docVars
  /\ fn = "realtime" /\ pc = "done"
  /\ Len(calls) < MaxCalculations
  /\ \E data \in ChangesTo(input) : input' = Merge(input, data)
  /\ args' = NoArgs
  /\ cashFlows' = <<>>
  /\ npv' = Zero
  /\ irr' = Zero
  /\ iter' = 0
  /\ result' = NoResult
  /\ pc' = "call"
  /\ UNCHANGED <<fn, rate, irrLow, irrHigh, projects, response, calls>>

--------------------------------------------------------------------------
(* client/src/App.tsx: the live form *)

\* handleInputChange: opEx, utilization and discountRate are entered as
\* percentages and kept as fractions
AppInputs(entered) ==
  [chargers |-> entered.chargers,
   capEx |-> entered.capEx,
   opEx |-> Div(entered.opEx, Num(100)),
   revenuePerKWh |-> entered.revenuePerKWh,
   utilization |-> Div(entered.utilization, Num(100)),
   horizon |-> entered.horizon,
   discountRate |-> Div(entered.discountRate, Num(100)),
   lcfsCreditValue |-> entered.lcfsCreditValue]

AppAnnualKWh(inputs) ==
  Mul(Mul(Mul(Num(inputs.chargers), inputs.utilization), Num(365)), Num(1000))

AppYearFlow(inputs) ==
  LET annualKWh == AppAnnualKWh(inputs)
      lcfsCredits == Div(Mul(Mul(annualKWh, Dec(36, -1)), Dec(6, -1)), Num(1000000))
      revenue == Add(Mul(annualKWh, inputs.revenuePerKWh),
                     Mul(lcfsCredits, inputs.lcfsCreditValue))
      costs == Mul(Mul(inputs.capEx, Num(inputs.chargers)), inputs.opEx)
  IN  Sub(revenue, costs)

\* useState({chargers: 4, capEx: 100000, opEx: 0.1, ...}): the initial inputs
DefaultInputs ==
  [chargers |-> 4, capEx |-> Num(100000), opEx |-> Dec(1, -1),
   revenuePerKWh |-> Dec(4, -1), utilization |-> Dec(5, -1), horizon |-> 10,
   discountRate |-> Dec(8, -2), lcfsCreditValue |-> Num(150)]

\* for (let t = 0; t < inputs.horizon; t++) flows.push(revenue - costs)
AppFlows(inputs) == [t \in 1 .. inputs.horizon |-> AppYearFlow(inputs)]

\* math.npv(flows, rate) of mathjs: the present value of the spec's section 4
mathNpv(flows, r) == calculateNPVAtRate(flows, r)

AppNpv(inputs) ==
  LET initialInvestment == Mul(inputs.capEx, Num(inputs.chargers))
  IN  Sub(mathNpv(AppFlows(inputs), inputs.discountRate), initialInvestment)

\* the effect that runs when the inputs change: setCashFlows, setNpv
AppEffect ==
  /\ UNCHANGED docVars
  /\ fn = "app" /\ pc = "call"
  /\ LET inputs == AppInputs(input)
     IN  /\ args' = inputs
         /\ cashFlows' = AppFlows(inputs)
         /\ npv' = AppNpv(inputs)
         /\ result' = [npv |-> AppNpv(inputs), cashFlows |-> AppFlows(inputs)]
  /\ calls' = Append(calls, Call("app", args', result'))
  /\ pc' = "done"
  /\ UNCHANGED <<fn, input, irr, rate, irrLow, irrHigh, iter, projects, response>>

--------------------------------------------------------------------------
(* Inputs *)

ProjectLives == {Absent} \cup {IntField(n) : n \in 1 .. MaxProjectLife}

BaseBody ==
  [chargerCount |-> Absent, capex |-> Str(100000, 0), opex |-> Str(20000, 0),
   peakUtilization |-> Str(50, 0), chargingRate |-> Str(4, -1),
   lcfsCredits |-> Absent, stateRebate |-> Absent, projectLife |-> Absent,
   discountRate |-> Absent]

BodyScenarios ==
  {BaseBody,
   [BaseBody EXCEPT !.chargerCount = IntField(8), !.lcfsCredits = Str(150, 0),
                    !.stateRebate = Str(50000, 0)],
   [BaseBody EXCEPT !.opex = Str(400000, 0)],
   [BaseBody EXCEPT !.capex = Str(-100, 0)],
   [BaseBody EXCEPT !.chargerCount = IntField(9)],
   [BaseBody EXCEPT !.peakUtilization = Str(0, 0)],
   [BaseBody EXCEPT !.capex = Absent]}

PostBodies ==
  {[b EXCEPT !.projectLife = l, !.discountRate = d] :
     b \in BodyScenarios, l \in ProjectLives, d \in {Absent, Str(8, 0)}}
  \cup {[BaseBody EXCEPT !.projectLife = IntField(MaxProjectLife),
                         !.discountRate = Str(0, 0)]}

\* DCFInputs records; peakUtilization is "as decimal (e.g., 0.65 for 65%)"
BaseDCFInputs ==
  [capex |-> Num(100000), opex |-> Num(2000), chargerCount |-> 4,
   peakUtilization |-> Dec(5, -1), chargingRate |-> Dec(4, -1),
   lcfsCredits |-> Absent, stateRebate |-> Absent, discountRate |-> Absent,
   projectLife |-> Absent]

DCFInputScenarios ==
  {BaseDCFInputs,
   [BaseDCFInputs EXCEPT !.capex = Num(1000), !.lcfsCredits = Num(150)],
   [BaseDCFInputs EXCEPT !.capex = Num(1000), !.stateRebate = Num(1000)],
   [BaseDCFInputs EXCEPT !.peakUtilization = Num(50)],
   [BaseDCFInputs EXCEPT !.peakUtilization = Zero],
   [BaseDCFInputs EXCEPT !.capex = Num(1000), !.opex = Num(1000),
                         !.peakUtilization = Num(1), !.chargingRate = Dec(121, -3)]}

\* a record whose series is [-1000, 1000]: the revenue 2861600 * 0.13 less
\* the electricity 2861600 * 0.12 and the OpEx 27616
UnitDCFInputs ==
  [capex |-> Num(1000), opex |-> Num(27616), chargerCount |-> 4,
   peakUtilization |-> Num(50), chargingRate |-> Dec(13, -2),
   lcfsCredits |-> Absent, stateRebate |-> Absent, discountRate |-> Zero,
   projectLife |-> IntField(1)]

\* the records given to validateDCFInputs: those of the library routine and
\* records with one field at or beyond an end of its range
PartialInputs ==
  {[b EXCEPT !.projectLife = l] : b \in DCFInputScenarios, l \in ProjectLives}
  \cup {[BaseDCFInputs EXCEPT !.opex = Zero],
         [BaseDCFInputs EXCEPT !.capex = Absent],
         [BaseDCFInputs EXCEPT !.capex = Num(-1000)],
         [BaseDCFInputs EXCEPT !.chargerCount = 9],
         [BaseDCFInputs EXCEPT !.chargerCount = 0],
         [BaseDCFInputs EXCEPT !.chargerCount = 8],
         [BaseDCFInputs EXCEPT !.peakUtilization = Num(1)],
         [BaseDCFInputs EXCEPT !.peakUtilization = Num(100)],
         [BaseDCFInputs EXCEPT !.peakUtilization = Num(101)],
         [BaseDCFInputs EXCEPT !.chargingRate = NaN],
         [BaseDCFInputs EXCEPT !.chargingRate = Absent]}

LibInputs ==
  {[b EXCEPT !.projectLife = l, !.discountRate = d] :
     b \in DCFInputScenarios, l \in ProjectLives, d \in {Absent, Dec(8, -2)}}
  \cup {[BaseDCFInputs EXCEPT !.projectLife = IntField(MaxProjectLife),
                              !.discountRate = Zero],
         UnitDCFInputs}

\* the form values the project modal watches
BaseValues ==
  [chargerCount |-> IntField(4), capex |-> Str(100000, 0), opex |-> Str(1, -1),
   peakUtilization |-> Str(50, 0), chargingRate |-> Str(4, -1),
   lcfsCredits |-> Absent, stateRebate |-> Absent, projectLife |-> IntField(10),
   discountRate |-> Absent]

ValueScenarios ==
  {BaseValues,
   [BaseValues EXCEPT !.capex = Str(1200000, 0), !.opex = Str(180000, 0),
                      !.peakUtilization = Str(65, 0), !.chargingRate = Str(45, -2)],
   [BaseValues EXCEPT !.opex = Str(0, 0)],
   [BaseValues EXCEPT !.opex = Absent],
   [BaseValues EXCEPT !.capex = Str(-100000, 0)],
   [BaseValues EXCEPT !.stateRebate = Str(400000, 0), !.lcfsCredits = Str(150, 0)],
   [BaseValues EXCEPT !.stateRebate = Str(100000, 0)],
   [BaseValues EXCEPT !.stateRebate = Str(900000, 0)],
   [BaseValues EXCEPT !.opex = Str(1, 0), !.chargingRate = Str(1, -2)],
   [BaseValues EXCEPT !.capex = Str(100, 0), !.opex = Str(5, -1)],
   [BaseValues EXCEPT !.capex = Str(1022000, 0), !.opex = Str(5, -1),
                      !.chargingRate = Str(5, -1)],
   [BaseValues EXCEPT !.capex = Str(1022000, 0), !.opex = Str(5, -1),
                      !.chargingRate = Str(5, -1), !.stateRebate = Str(4088000, 0)]}

\* form values whose series is [-1000, 1000]: the outlay 2043000 less the
\* rebate 2042000, the revenue 2044000 less the OpEx 2043000
UnitValues ==
  [chargerCount |-> IntField(4), capex |-> Str(510750, 0), opex |-> Str(1, 0),
   peakUtilization |-> Str(50, 0), chargingRate |-> Str(5, -1),
   lcfsCredits |-> Absent, stateRebate |-> Str(2042000, 0),
   projectLife |-> IntField(1), discountRate |-> Str(0, 0)]

FormValues ==
  {[b EXCEPT !.projectLife = l, !.discountRate = d] :
     b \in ValueScenarios, l \in ProjectLives, d \in {Absent, Str(8, 0)}}
  \cup {[BaseValues EXCEPT !.projectLife = IntField(MaxProjectLife),
                           !.discountRate = Str(0, 0)],
         UnitValues}

\* what the user typed into the App form
\* the initial inputs state of the App component, as the form shows it
DefaultEntry ==
  [chargers |-> 4, capEx |-> Num(100000), opEx |-> Num(10),
   revenuePerKWh |-> Dec(4, -1), utilization |-> Num(50), horizon |-> 10,
   discountRate |-> Num(8), lcfsCreditValue |-> Num(150)]

AppEntries ==
  [chargers : {4, 8}, capEx : {Num(100000)}, opEx : {Num(10)},
   revenuePerKWh : {Dec(4, -1)}, utilization : {Num(50), Zero},
   horizon : 1 .. MaxProjectLife, discountRate : {Num(8), Zero},
   lcfsCreditValue : {Num(150)}]
  \cup {DefaultEntry}

--------------------------------------------------------------------------
(* SOW documents: the upload route, the sow_documents table, the project
   page's totals and the upload modal *)

\* the most files in the modal's pending list, and the most stored documents
MaxPending == 2
MaxDocuments == 2

\* 10 * 1024 * 1024 bytes: multer's fileSize limit and the modal's size test
MaxFileSize == 10485760

\* the project id in the URL of the upload modal's requests, 'temp'; project
\* ids are generated uuids, so no row of projects has it
TempProject == 0

\* The requests and the modal's events are followed one at a time, when no DCF
\* calculation is under way: pc = "done".

\* files a user can choose and a client can send
Files ==
  {[name |-> "sow.pdf", type |-> "application/pdf", size |-> 1024],
   [name |-> "sow.xls",
    type |-> "application/vnd.ms-excel", size |-> MaxFileSize],
   [name |-> "scan.pdf", type |-> "application/pdf", size |-> MaxFileSize + 1],
   [name |-> "notes.txt", type |-> "text/plain", size |-> 2048]}

\* the files of one change event of the file input: one file, or two
\* different ones
Selections ==
  {<<f>> : f \in Files} \cup {s \in Files \X Files : s[1] # s[2]}

\* parseSOWDocument: the ParsedSOWData object for a mime type (totalAmount and
\* metadata, which no reader uses, left out); an unsupported type throws inside
\* the try and gets the mock expenses.  A JSON value carries its kind, "object"
\* or "array" (the items of an array are its field items).
parseSOWDocument(mimeType) ==
  IF mimeType = "application/pdf"
    THEN [kind |-> "object",
          expenses |-> <<[category |-> "Equipment", amount |-> 800000],
                         [category |-> "Installation", amount |-> 200000],
                         [category |-> "Electrical", amount |-> 150000],
                         [category |-> "Permits", amount |-> 50000],
                         [category |-> "Project Management", amount |-> 50000]>>]
  ELSE IF mimeType \in
            {"application/vnd.openxmlformats-officedocument.spreadsheetml.sheet",
             "application/vnd.ms-excel"}
    THEN [kind |-> "object",
          expenses |-> <<[category |-> "Hardware", amount |-> 650000],
                         [category |-> "Civil Works", amount |-> 180000],
                         [category |-> "Electrical Works", amount |-> 120000],
                         [category |-> "Other", amount |-> 30000]>>]
  ELSE [kind |-> "object",
        expenses |-> <<[category |-> "Equipment", amount |-> 600000],
                       [category |-> "Installation", amount |-> 150000],
                       [category |-> "Infrastructure", amount |-> 100000]>>]

\* an insert that does not look at the projects table
AnyProject(projectId) == TRUE

\* project_id references projects.id: the insert of a row throws unless a
\* project has that id
ProjectExists(projectId) == Stored(projectId)

\* POST /api/projects/:projectId/sow-documents with a file: the status and the
\* table afterwards.  multer refuses a file above its limit before the handler
\* runs; the handler parses the file and inserts the row, and answers 500 when
\* the insert throws
SOWUpload(documents, projectId, file) ==
  IF file.size > MaxFileSize THEN [status |-> 500, documents |-> documents]
  ELSE LET extractedExpenses == parseSOWDocument(file.type)
           document == [projectId |-> projectId, filename |-> file.name,
                        fileType |-> file.type, fileSize |-> file.size,
                        extractedExpenses |-> extractedExpenses,
                        processed |-> TRUE]
       IN  IF ProjectExists(projectId)
             THEN [status |-> 201, documents |-> Append(documents, document)]
             ELSE [status |-> 500, documents |-> documents]

\* an upload request sent to the route directly
PostSOWDocument ==
  /\ pc = "done"
  /\ Len(sowDocuments) < MaxDocuments
  /\ \E projectId \in ProjectIds \cup {TempProject}, file \in Files :
       LET r == SOWUpload(sowDocuments, projectId, file)
       IN  /\ sowDocuments' = r.documents
           /\ response' = r.status
  /\ UNCHANGED <<fn, input, pc, args, cashFlows, npv, irr, rate, irrLow, irrHigh,
                 iter, result, projects, calls, uploadedFiles, mutation>>

\* DELETE /api/sow-documents/:id, for the id of the n-th stored document or
\* for an id no document has
DeleteSOWDocument ==
  /\ pc = "done"
  /\ \E n \in 1 .. MaxDocuments :
       sowDocuments' = IF n <= Len(sowDocuments)
                         THEN SubSeq(sowDocuments, 1, n - 1)
                                \o SubSeq(sowDocuments, n + 1, Len(sowDocuments))
                         ELSE sowDocuments
  /\ response' = 204
  /\ UNCHANGED <<fn, input, pc, args, cashFlows, npv, irr, rate, irrLow, irrHigh,
                 iter, result, projects, calls, uploadedFiles, mutation>>

\* a delete of the project row that leaves the documents alone
KeepDocuments(documents, id) == documents

\* on delete cascade: the documents of the project go with its row
CascadeDelete(documents, id) ==
  SelectSeq(documents, LAMBDA d : d.projectId # id)

\* DELETE /api/projects/:id (one project at most is stored, with id 1)
DeleteProject ==
  /\ pc = "done"
  /\ \E id \in ProjectIds :
       /\ projects' = IF Stored(id) THEN <<>> ELSE projects
       /\ sowDocuments' = CascadeDelete(sowDocuments, id)
  /\ response' = 204
  /\ UNCHANGED <<fn, input, pc, args, cashFlows, npv, irr, rate, irrLow, irrHigh,
                 iter, result, calls, uploadedFiles, mutation>>

\* project page: the sum of exp.amount || 0 over the documents whose
\* extractedExpenses passes Array.isArray
TotalSOWAmount(documents) ==
  LET RECURSIVE Amounts(_, _)
      Amounts(expenses, n) ==
        IF n = 0 THEN 0 ELSE Amounts(expenses, n - 1) + expenses[n].amount
      RECURSIVE Total(_)
      Total(n) ==
        IF n = 0 THEN 0
        ELSE LET doc == documents[n]
             IN  IF doc.extractedExpenses.kind = "array"
                   THEN Total(n - 1) + Amounts(doc.extractedExpenses.items,
                                               Len(doc.extractedExpenses.items))
                   ELSE Total(n - 1)
  IN  Total(Len(documents))

\* totalSOWAmount / project.chargerCount
SowCapexPerCharger(documents, project) ==
  Div(Num(TotalSOWAmount(documents)), Num(project.columns.chargerCount[1]))

\* the modal's test of a chosen file
AnyFile(file) == TRUE

\* validTypes.includes(file.type) && file.size <= 10 * 1024 * 1024
ValidFile(file) ==
  /\ file.type \in
       {"application/pdf",
        "application/vnd.openxmlformats-officedocument.spreadsheetml.sheet",
        "application/vnd.ms-excel"}
  /\ file.size <= MaxFileSize

\* handleFileSelect: the valid files of the selection join the pending list
handleFileSelect ==
  /\ pc = "done"
  /\ \E files \in Selections :
       LET validFiles == SelectSeq(files, ValidFile)
       IN  /\ Len(uploadedFiles) + Len(validFiles) <= MaxPending
           /\ uploadedFiles' = uploadedFiles \o validFiles
  /\ UNCHANGED <<fn, input, pc, args, cashFlows, npv, irr, rate, irrLow, irrHigh,
                 iter, result, projects, response, calls, sowDocuments, mutation>>

\* removeFile(index), from the remove button of a listed file:
\* prev.filter((_, i) => i !== index), index counted from 0
removeFile ==
  /\ pc = "done"
  /\ \E index \in 0 .. Len(uploadedFiles) - 1 :
       uploadedFiles' = SubSeq(uploadedFiles, 1, index)
                          \o SubSeq(uploadedFiles, index + 2, Len(uploadedFiles))
  /\ UNCHANGED <<fn, input, pc, args, cashFlows, npv, irr, rate, irrLow, irrHigh,
                 iter, result, projects, response, calls, sowDocuments, mutation>>

\* the upload mutation: its status, the files it was started with and, for
\* each file's request, 0 while in flight, the status of the response, or
\* -1 when fetch rejected
NoMutation == [status |-> "idle", files |-> <<>>, answers |-> <<>>]

\* the Process Files button: uploadMutation.mutate(uploadedFiles) sends one
\* request per file at once.  (The button is disabled while the mutation is
\* pending; a new batch is followed once the last one's requests are answered.)
ProcessFiles ==
  /\ pc = "done"
  /\ uploadedFiles # <<>>
  /\ mutation.status # "pending"
  /\ \A i \in DOMAIN mutation.answers : mutation.answers[i] # 0
  /\ mutation' = [status |-> "pending", files |-> uploadedFiles,
                  answers |-> [i \in 1 .. Len(uploadedFiles) |-> 0]]
  /\ UNCHANGED <<fn, input, pc, args, cashFlows, npv, irr, rate, irrLow, irrHigh,
                 iter, result, projects, response, calls, sowDocuments,
                 uploadedFiles>>

\* a request of the batch is answered: the route handles it, or fetch rejects
\* on the network (-1).  Promise.all rejects on the first request that fails
\* and resolves when all are ok; onSuccess empties the pending list, onError
\* only shows a toast
UploadAnswered ==
  /\ pc = "done"
  /\ \E i \in DOMAIN mutation.answers :
       /\ mutation.answers[i] = 0
       /\ \E delivered \in BOOLEAN :
            LET r == IF delivered
                       THEN SOWUpload(sowDocuments, TempProject, mutation.files[i])
                       ELSE [status |-> -1, documents |-> sowDocuments]
                answers == [mutation.answers EXCEPT ![i] = r.status]
                status == IF mutation.status # "pending" THEN mutation.status
                          ELSE IF r.status # 201 THEN "error"
                          ELSE IF \A j \in DOMAIN answers : answers[j] = 201
                            THEN "success"
                          ELSE "pending"
            IN  /\ sowDocuments' = r.documents
                /\ mutation' = [mutation EXCEPT !.answers = answers,
                                                !.status = status]
                /\ uploadedFiles' =
                     IF mutation.status = "pending" /\ status = "success"
                       THEN <<>> ELSE uploadedFiles
  /\ UNCHANGED <<fn, input, pc, args, cashFlows, npv, irr, rate, irrLow, irrHigh,
                 iter, result, projects, response, calls>>

Init ==
  /\ \/ fn = "server" /\ input \in PostBodies
     \/ fn = "lib" /\ input \in LibInputs
     \/ fn = "realtime" /\ input \in FormValues
     \/ fn = "app" /\ input \in AppEntries
     \/ fn = "validate" /\ input \in PartialInputs
  /\ pc = "call"
  /\ args = NoArgs
  /\ cashFlows = <<>>
  /\ npv = Zero
  /\ irr = Zero
  /\ rate = Zero
  /\ irrLow = Zero
  /\ irrHigh = Zero
  /\ iter = 0
  /\ result = NoResult
  /\ projects = <<>>
  /\ calls = <<>>
  /\ response = 0
  /\ sowDocuments = <<>>
  /\ uploadedFiles = <<>>
  /\ mutation = NoMutation

Next ==
  \/ PostRejected
  \/ PostProject
  \/ ServerIRRStep
  \/ ServerFinish
  \/ PutProject
  \/ PutProjectPlain
  \/ PutMissing
  \/ GetProject
  \/ LibCall
  \/ LibIRRStep
  \/ LibFinish
  \/ RealtimeReturnEmpty
  \/ RealtimeCall
  \/ RealtimeIRRStep
  \/ RealtimeFinish
  \/ FormEdit
  \/ AppEffect
  \/ Validate

Spec == Init /\ [][Next]_vars

\* the documents and the upload modal, around one project created by a POST
DocInit == Init /\ fn = "server" /\ input = BaseBody

DocNext ==
  \/ PostProject
  \/ ServerIRRStep
  \/ ServerFinish
  \/ DeleteProject
  \/ PostSOWDocument
  \/ DeleteSOWDocument
  \/ handleFileSelect
  \/ removeFile
  \/ ProcessFiles
  \/ UploadAnswered

DocSpec == DocInit /\ [][DocNext]_vars

--------------------------------------------------------------------------
(* The documented input domain *)

\* the domain of the engine's inputs, on the values a routine computes with
ValidArgs(a) ==
  /\ a.chargerCount \in 4 .. 8
  /\ Gt(a.capex, Zero)
  /\ Ge(a.opex, Zero)
  /\ Gt(a.peakUtilization, Zero) /\ Le(a.peakUtilization, Num(1))
  /\ Gt(a.chargingRate, Zero)
  /\ Ge(a.lcfsCredits, Zero)
  /\ Ge(a.stateRebate, Zero)
  /\ a.projectLife > 0
  /\ Gt(a.discountRate, Num(-1))

\* the same domain on the inputs state of the App form
ValidAppInputs(a) ==
  /\ a.chargers \in 4 .. 8
  /\ Gt(a.capEx, Zero)
  /\ Ge(a.opEx, Zero)
  /\ Gt(a.utilization, Zero) /\ Le(a.utilization, Num(1))
  /\ Gt(a.revenuePerKWh, Zero)
  /\ a.horizon > 0
  /\ Gt(a.discountRate, Num(-1))

\* the routines that return npv, irr, lcoc and cashFlows
Engines == {"server", "put", "lib", "realtime"}

\* the form fields calculateRealtimeDCF requires have been filled in
FormComplete(values) ==
  /\ values.capex # Absent
  /\ values.opex # Absent
  /\ values.peakUtilization # Absent
  /\ values.chargingRate # Absent

\* a routine has returned a record (for the form: with its fields filled in)
Returned ==
  /\ pc = "done"
  /\ result # NoResult
  /\ fn = "realtime" => FormComplete(input)

\* every flow is >= 0, or every flow is <= 0
NoSignChange(cfs) ==
  \/ \A t \in 1 .. Len(cfs) : Ge(cfs[t], Zero)
  \/ \A t \in 1 .. Len(cfs) : Le(cfs[t], Zero)

\* the energy the routine divides the costs by is zero
NoEnergy(a) == IsZero(a.peakUtilization) \/ a.chargerCount = 0

--------------------------------------------------------------------------
(* Claims *)

\* C1: for every valid input the NPV a routine returns is the sum of
\* cashFlows[t] / (1 + discountRate)^t at the input discount rate, up to the
\* routine's final rounding.
C1_NpvAtInputRate ==
  (Returned /\ fn \in Engines /\ ValidArgs(args))
    => result.npv = Round(calculateNPVAtRate(cashFlows, args.discountRate))

\* C2: for every valid input the cash-flow series a routine produces has
\* projectLife + 1 entries.
C2_SeriesLength ==
  /\ (Returned /\ fn \in Engines /\ ValidArgs(args))
       => Len(result.cashFlows) = args.projectLife + 1
  /\ (Returned /\ fn = "app" /\ ValidAppInputs(args))
       => Len(result.cashFlows) = args.horizon + 1

\* C3: for every valid input the year-0 cash flow of a routine is
\* -(capex * chargerCount - stateRebate).
C3_YearZeroOutlay ==
  (Returned /\ fn \in Engines /\ ValidArgs(args) /\ cashFlows # <<>>)
    => cashFlows[1] = Neg(Sub(Mul(args.capex, Num(args.chargerCount)), args.stateRebate))

\* C4: whenever a routine returns a numeric rate irr, the present value of its
\* cash flows discounted at irr is within 1e-3 of zero.
C4_IrrIsRoot ==
  (Returned /\ fn \in Engines /\ IsFinite(irr))
    => Le(Abs(calculateNPVAtRate(cashFlows, irr)), Dec(1, -3))

\* C5: for a cash-flow series with no sign change the IRR returned is not a
\* numeric rate (and so not a boundary of the search interval either).
C5_NoSignChangeUndetermined ==
  (Returned /\ fn \in Engines /\ ValidArgs(args) /\ cashFlows # <<>>
     /\ NoSignChange(cashFlows))
    => ~IsFinite(result.irr)

\* a step taken inside an IRR search keeps npv and cashFlows
SearchKeepsOutputs ==
  pc \in {"server_irr", "lib_irr", "rt_irr"} => (npv' = npv /\ cashFlows' = cashFlows)

\* C6: no pass of an IRR search changes the npv or the cash flows the routine
\* goes on to return.
C6_SearchLeavesOutputs == [][SearchKeepsOutputs]_vars

\* C7: when the energy delivered is zero the LCOC returned is undefined: not a
\* number, not NaN, not Infinity.
C7_NoEnergyUndefined ==
  (Returned /\ fn \in Engines /\ NoEnergy(args)) => result.lcoc = Absent

\* C8: for a request whose inputs are outside the documented domain no cash
\* flow is computed, no result is produced and no project is stored.
C8_InvalidRejected ==
  (fn \in {"server", "realtime"}
     /\ ~ValidArgs(IF fn = "server" THEN PostArgs(input) ELSE RealtimeArgs(input)))
    => (cashFlows = <<>> /\ result = NoResult /\ projects = <<>>)

\* the percentage fields reach the routine divided by 100 once
ConvertedOnce ==
  /\ (fn \in {"server", "realtime"} /\ pc = "done" /\ args # NoArgs)
       => /\ args.peakUtilization =
               Div(ParseFloat(OrElse(input.peakUtilization, Str(0, 0))), Num(100))
          /\ args.discountRate =
               Div(ParseFloat(OrElse(input.discountRate, Str(10, 0))), Num(100))
  /\ (fn = "app" /\ pc = "done")
       => /\ args.utilization = Div(input.utilization, Num(100))
          /\ args.opEx = Div(input.opEx, Num(100))
          /\ args.discountRate = Div(input.discountRate, Num(100))

\* an update of a project created from valid inputs that does not touch them
\* recomputes with the utilization and the discount rate of the creation
RowReadBackUnchanged ==
  (fn = "server" /\ fn' = "put" /\ ValidArgs(args))
    => /\ input'.peakUtilization = Absent => args'.peakUtilization = args.peakUtilization
       /\ input'.discountRate = Absent => args'.discountRate = args.discountRate

\* C9: on the paths from a request body, the form values, the App form and a
\* stored row (column defaults included) to a DCF routine, peakUtilization, the
\* OpEx rate and discountRate are percentages divided by 100 exactly once.
C9_ConvertedOnce == []ConvertedOnce /\ [][RowReadBackUnchanged]_vars

\* the pass counters stay within the caps, and the scan rate stays a number,
\* so that one of "next pass" and "leave the loop" is always open
SearchBounded ==
  /\ fn = "realtime" => iter <= maxIterations
  /\ fn = "lib" => iter <= MaxBisections
  /\ fn \in {"server", "put"} => (iter <= ScanPasses /\ IsFinite(rate))

\* a step taken inside a search counts one more pass or leaves the routine
SearchAdvances ==
  pc \in {"server_irr", "lib_irr", "rt_irr"} => (iter' = iter + 1 \/ pc' = "done")

\* C10: every IRR search ends: each step inside a search is one more pass (or
\* the end of the routine), and the passes never exceed 50 for the
\* Newton-Raphson loop, 100 for the bisection and 49 for the rate scan.
C10_SearchTerminates == []SearchBounded /\ [][SearchAdvances]_vars

\* C10: a Newton-Raphson search that used all 50 passes without converging
C10_NewtonExhausted ==
  fn = "realtime" /\ pc = "done" /\ iter = maxIterations /\ IsFinite(irr)

\* r lies in the interval the Newton-Raphson search clamps to
InClamp(r) == Ge(r, irrMin) /\ Le(r, irrMax)

\* C11: in the Newton-Raphson search of a valid input every iterate the next
\* pass evaluates lies in [-0.99, 10], and the rate returned (in percent) lies
\* in [-99, 1000].
C11_NewtonClamped ==
  (fn = "realtime" /\ args # NoArgs /\ ValidArgs(args))
    => /\ pc = "rt_irr" => InClamp(irr)
       /\ (Returned /\ cashFlows # <<>>)
            => (Ge(result.irr, Num(-99)) /\ Le(result.irr, Num(1000)))

\* every flow after year 0 is zero: the derivative of the present value is 0
\* at every rate
FlatAfterYear0(cfs) == cfs # <<>> /\ \A t \in 2 .. Len(cfs) : IsZero(cfs[t])

\* C12: when the derivative of the present value is 0 at the iterates (all
\* flows after year 0 are zero), the Newton-Raphson search returns no rate:
\* not a number, not NaN, not an infinity.
C12_ZeroDerivativeUndetermined ==
  (Returned /\ fn = "realtime" /\ ValidArgs(args) /\ FlatAfterYear0(cashFlows))
    => result.irr = Absent

\* C13: the routines are deterministic and keep no state between calls: two
\* calls of the same routine with identical parameters return identical npv,
\* irr, lcoc and cashFlows, whatever was calculated before or between them.
C13_Deterministic ==
  \A i, j \in 1 .. Len(calls) :
    (calls[i].routine = calls[j].routine /\ calls[i].args = calls[j].args)
      => calls[i].result = calls[j].result

\* a routine has run twice with the same parameters and once, in between,
\* with other parameters, and returned a series each time
C13_SameInputsTwice ==
  /\ Len(calls) = 3
  /\ calls[1].args = calls[3].args
  /\ calls[2].args # calls[1].args
  /\ \A i \in 1 .. 3 : calls[i].result.cashFlows # <<>>

\* the parameters a and b differ in chargingRate only, and b's is the larger
LargerChargingRate(a, b) ==
  /\ [a EXCEPT !.chargingRate = Zero] = [b EXCEPT !.chargingRate = Zero]
  /\ Gt(b.chargingRate, a.chargingRate)

\* C14: of two calls of the server's calculateDCF with valid parameters that
\* differ only in chargingRate, the one with the larger chargingRate returns the strictly
\* larger npv.
C14_MonotoneInChargingRate ==
  \A i, j \in 1 .. Len(calls) :
    (/\ calls[i].routine = calls[j].routine
     /\ calls[i].routine = "server"
     /\ ValidArgs(calls[i].args) /\ ValidArgs(calls[j].args)
     /\ LargerChargingRate(calls[i].args, calls[j].args))
      => Gt(calls[j].result.npv, calls[i].result.npv)

\* the parameters b are the parameters a with the rebate taken off the CapEx
\* (in total the same amount) and no rebate
FoldsRebate(a, b) ==
  /\ Gt(a.stateRebate, Zero)
  /\ b = [a EXCEPT !.capex = Sub(a.capex, Div(a.stateRebate, Num(a.chargerCount))),
                   !.stateRebate = Zero]

\* the calls i and j of one of the routines have valid parameters, and j's
\* are i's with the rebate folded into the CapEx
FoldedPair(routines, i, j) ==
  /\ calls[i].routine = calls[j].routine
  /\ calls[i].routine \in routines
  /\ ValidArgs(calls[i].args) /\ ValidArgs(calls[j].args)
  /\ FoldsRebate(calls[i].args, calls[j].args)

\* C15 (as stated): the NPV with a rebate R equals the NPV with no rebate and
\* the capital expenditure reduced by R in total, in the server's
\* calculateDCF and in calculateRealtimeDCF.
C15_RebateAdditive ==
  \A i, j \in 1 .. Len(calls) :
    FoldedPair({"server", "realtime"}, i, j)
      => calls[i].result.npv = calls[j].result.npv

\* C15 (amended): in the server's calculateDCF, where the yearly operating
\* expense is an amount of its own, the NPV with a rebate R equals the NPV
\* with no rebate and the capital expenditure reduced by R in total, and so
\* does the whole series.
C15_RebateAdditiveAbsoluteOpex ==
  \A i, j \in 1 .. Len(calls) :
    FoldedPair({"server"}, i, j)
      => /\ calls[i].result.npv = calls[j].result.npv
         /\ calls[i].result.cashFlows = calls[j].result.cashFlows

\* the server has calculated a project with a rebate and the same project
\* with the rebate folded into the CapEx
C15_ServerFoldedPair ==
  \E i, j \in 1 .. Len(calls) :
    FoldedPair({"server"}, i, j) /\ IsFinite(calls[j].result.npv)

\* cfs[1] + cfs[2] + ..., added from the left
RECURSIVE SumFrom(_, _, _)
SumFrom(cfs, i, acc) ==
  IF i > Len(cfs) \/ IsNaN(acc) THEN acc ELSE SumFrom(cfs, i + 1, Add(acc, cfs[i]))

\* a routine has built its series and computed the npv at the discount rate,
\* and its IRR search has not begun
NpvComputed ==
  /\ pc \in {"server_irr", "lib_irr", "rt_irr"}
  /\ iter = 0

\* C16: with discountRate = 0 the present value a routine computes for its
\* series is the plain sum of the elements of the series.
C16_ZeroRateIsSum ==
  (NpvComputed /\ IsZero(args.discountRate)) => npv = SumFrom(cashFlows, 1, Zero)

\* a routine has computed the present value of a series with flows of both
\* signs at the discount rate 0
C16_ZeroRateComputed ==
  /\ NpvComputed /\ IsZero(args.discountRate)
  /\ Len(cashFlows) = MaxProjectLife + 1
  /\ ~NoSignChange(cashFlows)

\* C17: for 4 chargers, CapEx 100000 per charger, OpEx rate 0.1, utilization
\* 0.5, charging rate 0.4, LCFS credit value 150, 10 years, discount rate 0.08
\* and no rebate (the initial inputs of the App form), the series is
\* cashFlows[0] = -400000 followed by ten strictly positive flows, and the
\* npv is finite.
C17_ReferenceScenario ==
  (fn = "app" /\ pc = "done" /\ args = DefaultInputs)
    => /\ Len(result.cashFlows) = 11
       /\ result.cashFlows[1] = Num(-400000)
       /\ \A t \in 2 .. Len(result.cashFlows) : Gt(result.cashFlows[t], Zero)
       /\ IsFinite(result.npv)

\* a routine has returned for the series [-1000, 1000] and the discount rate 0
UnitSeriesReturned ==
  /\ Returned /\ fn \in {"lib", "realtime"}
  /\ cashFlows = <<Num(-1000), Num(1000)>>
  /\ IsZero(args.discountRate)

DiscountedLCOC(outlay, costs, energy, r) ==
  Div(Add(outlay, DiscountedFrom(costs, r, 0, Zero)),
      DiscountedFrom(energy, r, 0, Zero))

\* the yearly operating cost and the yearly energy behind the server's flows
ServerYearlyCosts(a) == [t \in 1 .. a.projectLife |-> a.opex]
ServerYearlyEnergy(a) == [t \in 1 .. a.projectLife |-> ServerAnnualKWh(a)]

\* C19: the LCOC the server returns is the year 0 outlay plus each year's
\* operating cost discounted at discountRate, divided by each year's energy
\* discounted at the same rate (to three decimals).
C19_LcocDiscounted ==
  (Returned /\ fn \in {"server", "put"} /\ ValidArgs(args))
    => result.lcoc =
         RoundMilli(DiscountedLCOC(Neg(cashFlows[1]), ServerYearlyCosts(args),
                                   ServerYearlyEnergy(args), args.discountRate))

\* C20: for valid parameters, whatever the rebate, the LCOC a routine
\* returns is >= 0.
C20_LcocNonNegative ==
  (Returned /\ fn \in Engines /\ ValidArgs(args) /\ cashFlows # <<>>)
    => Ge(result.lcoc, Zero)

\* the documented domain of a DCFInputs record: capex > 0, OpEx >= 0,
\* chargerCount in [4, 8], peakUtilization a fraction in (0, 1],
\* chargingRate > 0
InDomain(inputs) ==
  /\ inputs.capex # Absent /\ Gt(inputs.capex, Zero)
  /\ inputs.opex # Absent /\ Ge(inputs.opex, Zero)
  /\ inputs.chargerCount \in 4 .. 8
  /\ inputs.peakUtilization # Absent
  /\ Gt(inputs.peakUtilization, Zero) /\ Le(inputs.peakUtilization, Num(1))
  /\ inputs.chargingRate # Absent /\ Gt(inputs.chargingRate, Zero)

\* C21: validateDCFInputs returns no error exactly for the records inside the
\* documented domain, and at least one error for every record outside it.
C21_ValidatesDomain ==
  (fn = "validate" /\ pc = "done")
    => (result.errors = <<>> <=> InDomain(input))

\* a step that changes a stored input of a project (calculated from valid
\* inputs) runs calculateDCF and stores what it returned
InputChangeRecalculates ==
  (Stored(1) /\ Len(projects') = Len(projects)
     /\ ValidArgs(calls[Len(calls)].args)
     /\ projects'[1].columns # projects[1].columns)
    => /\ Len(calls') = Len(calls) + 1
       /\ projects'[1].npv = result'.npv
       /\ projects'[1].irr = result'.irr
       /\ projects'[1].lcoc = result'.lcoc
       /\ projects'[1].cashFlows = result'.cashFlows

\* C22: a PUT that changes an input calculateDCF reads recalculates the
\* stored npv, irr, lcoc and cashFlows, so that the stored metrics stay those
\* of the stored inputs.
C22_MetricsFollowInputs == [][InputChangeRecalculates]_vars

\* the metrics of the stored project stay as they are
RepeatKeepsMetrics ==
  (/\ fn' = "put" /\ pc = "server_irr" /\ pc' = "done" /\ response' = 200
   /\ ValidArgs(args)
   /\ projects'[1].columns = projects[1].columns)
    => /\ projects'[1].npv = projects[1].npv
       /\ projects'[1].irr = projects[1].irr
       /\ projects'[1].lcoc = projects[1].lcoc
       /\ projects'[1].cashFlows = projects[1].cashFlows

\* C23: a PUT whose body repeats the stored financial inputs of a project
\* leaves the stored npv, irr, lcoc and cashFlows as they were.
C23_RepeatedInputsKeepMetrics == [][RepeatKeepsMetrics]_vars

\* C24: GET and PUT /api/projects/:id for an id without a stored project
\* respond 404, whatever the body.
C24_MissingIs404 ==
  (fn \in {"get", "put_missing"} /\ ~Stored(args.id)) => response = 404

\* the binary search is under way or has ended
InBisection == fn = "lib" /\ pc \in {"lib_irr", "lib_lcoc", "done"}

\* the present value changes sign between the initial bounds
SignChange ==
  /\ Gt(calculateNPVAtRate(cashFlows, irrLowInit), Zero)
  /\ Lt(calculateNPVAtRate(cashFlows, irrHighInit), Zero)

\* the bracket lies in [-0.99, 10], holds irr, and keeps the sign change
BracketHolds ==
  InBisection =>
    /\ Le(irrLowInit, irrLow) /\ Le(irrLow, irr)
    /\ Le(irr, irrHigh) /\ Le(irrHigh, irrHighInit)
    /\ SignChange =>
         /\ Gt(calculateNPVAtRate(cashFlows, irrLow), Zero)
         /\ Lt(calculateNPVAtRate(cashFlows, irrHigh), Zero)

\* a pass of the binary search moves neither end outwards
BracketShrinks ==
  pc = "lib_irr" => Le(irrLow, irrLow') /\ Le(irrHigh', irrHigh)

\* C29: throughout the bisection -0.99 <= irrLow <= irr <= irrHigh <= 10, the
\* interval only shrinks, and when the present value is positive at -0.99 and
\* negative at 10 it stays positive at irrLow and negative at irrHigh, so a
\* rate of present value zero stays inside the bracket
C29_BracketKept == []BracketHolds /\ [][BracketShrinks]_vars

\* C29 witness: a search over a series with a sign change has moved both ends
C29_BothEndsMoved ==
  /\ fn = "lib" /\ pc = "lib_irr" /\ iter >= 5
  /\ SignChange
  /\ irrLow # irrLowInit /\ irrHigh # irrHighInit

\* x.toFixed(digits), as the number the string denotes
ToFixed(x, digits) == Div(Round(Mul(x, Dec(1, digits))), Dec(1, digits))

\* GET /api/dashboard/stats: avgIRR, the mean of parseFloat(p.irr || "0") over
\* the stored rows (0 when there is none), times 100
StatsAvgIRR(rows) ==
  LET RECURSIVE SumIRR(_)
      SumIRR(n) == IF n = 0 THEN Zero
                   ELSE Add(SumIRR(n - 1), IF IsZero(rows[n].irr) THEN Zero ELSE rows[n].irr)
      avgIRR == IF Len(rows) > 0 THEN Div(SumIRR(Len(rows)), Num(Len(rows))) ELSE Zero
  IN  Mul(avgIRR, Num(100))

\* the dashboard's Avg IRR card: formatPercentage(stats.avgIRR || 0)
DashboardShownIRR(rows) == ToFixed(StatsAvgIRR(rows), 1)

\* the dashboard's project list: formatPercentage(parseFloat(project.irr))
ListShownIRR(p) == ToFixed(p.irr, 1)

\* the project page: formatPercentage(project.irr), parseFloat then toFixed(2)
DetailsShownIRR(p) == ToFixed(p.irr, 2)

\* the project modal of a stored project: parseFloat(value) * 100, toFixed(1)
ModalShownIRR(p) == ToFixed(Mul(p.irr, Num(100)), 1)

\* a request has stored the metrics of a calculation whose IRR local is irr
StoredCalculation ==
  /\ fn \in {"server", "put"} /\ pc = "done"
  /\ response \in {200, 201}
  /\ Len(projects) = 1
  /\ projects[1].irr = result.irr
  /\ ValidArgs(args)

\* C30: an IRR computed as the fraction irr reaches the irr column and every
\* screen as 100 * irr percent: it is multiplied by 100 exactly once on the way
\* to the stored column, the dashboard average, the project list, the project
\* page and the project modal
C30_PercentOnce ==
  StoredCalculation =>
    LET p == projects[1]
        percent == Mul(irr, Num(100))
    IN  /\ p.irr = ToFixed(percent, 2)
        /\ DashboardShownIRR(projects) = ToFixed(percent, 1)
        /\ ListShownIRR(p) = ToFixed(percent, 1)
        /\ DetailsShownIRR(p) = ToFixed(percent, 2)
        /\ ModalShownIRR(p) = ToFixed(percent, 1)

\* C25: every stored SOW document's projectId names a stored project, after any
\* sequence of project creations and deletions and of uploads and deletions of
\* documents (an upload for the modal's 'temp' or another id without a project
\* stores nothing, and a project's documents are deleted with it)
C25_DocumentsHaveProject ==
  \A n \in 1 .. Len(sowDocuments) : Stored(sowDocuments[n].projectId)

\* C25 witness: an upload for an id without a project was answered 500 while a
\* document of the stored project is kept
C25_OrphanUploadRefused ==
  /\ response = 500
  /\ Len(sowDocuments) = 1
  /\ Stored(sowDocuments[1].projectId)
  /\ mutation.status = "error"

\* the documents of project 1, as GET /api/projects/1/sow-documents lists them
DocumentsOfProject == SelectSeq(sowDocuments, LAMBDA d : d.projectId = 1)

\* the sum of the amounts of the expenses parseSOWDocument extracts from the
\* files of the documents
ExtractedTotal(documents) ==
  LET RECURSIVE Amounts(_, _)
      Amounts(expenses, n) ==
        IF n = 0 THEN 0 ELSE Amounts(expenses, n - 1) + expenses[n].amount
      RECURSIVE Total(_)
      Total(n) ==
        IF n = 0 THEN 0
        ELSE LET expenses == parseSOWDocument(documents[n].fileType).expenses
             IN  Total(n - 1) + Amounts(expenses, Len(expenses))
  IN  Total(Len(documents))

\* C26: for a stored project with uploaded SOW documents, the total SOW amount
\* of the project page is the sum of the amounts of all expenses extracted for
\* those documents, and the SOW CapEx per charger is that sum divided by
\* chargerCount
C26_SowTotalIsExtractedSum ==
  (pc = "done" /\ Stored(1) /\ DocumentsOfProject # <<>>) =>
    /\ TotalSOWAmount(DocumentsOfProject) = ExtractedTotal(DocumentsOfProject)
    /\ SowCapexPerCharger(DocumentsOfProject, projects[1]) =
         Div(Num(ExtractedTotal(DocumentsOfProject)),
             Num(projects[1].columns.chargerCount[1]))

\* C27: when the upload mutation of the modal has ended in error, no request of
\* its batch was answered 201 and no document is stored for the modal's
\* project id: no file of the batch has been stored
C27_FailedBatchStoresNothing ==
  mutation.status = "error" =>
    /\ \A i \in DOMAIN mutation.answers : mutation.answers[i] # 201
    /\ \A n \in 1 .. Len(sowDocuments) : sowDocuments[n].projectId # TempProject

\* C27 witness: a batch of two files ended in error with both requests
\* answered, one of them by the route
C27_BatchOfTwoFailed ==
  /\ mutation.status = "error"
  /\ Len(mutation.files) = 2
  /\ \A i \in DOMAIN mutation.answers : mutation.answers[i] # 0
  /\ \E i \in DOMAIN mutation.answers : mutation.answers[i] = 500
  /\ Stored(1)

\* a PDF or Excel (.xlsx, .xls) file of at most 10 MB
PdfOrExcelWithinLimit(file) ==
  /\ \/ file.type = "application/pdf"
     \/ file.type = "application/vnd.openxmlformats-officedocument.spreadsheetml.sheet"
     \/ file.type = "application/vnd.ms-excel"
  /\ file.size <= 10 * 1024 * 1024

\* every pending file is a PDF or Excel file of at most 10 MB
PendingAllowed ==
  \A n \in 1 .. Len(uploadedFiles) : PdfOrExcelWithinLimit(uploadedFiles[n])

\* a removal takes out the entry at one index and keeps the others in order
RemovalExact ==
  (mutation' = mutation /\ Len(uploadedFiles') < Len(uploadedFiles)) =>
    \E index \in 0 .. Len(uploadedFiles) - 1 :
      /\ Len(uploadedFiles') = Len(uploadedFiles) - 1
      /\ \A j \in 1 .. Len(uploadedFiles') :
           uploadedFiles'[j] = IF j <= index THEN uploadedFiles[j]
                               ELSE uploadedFiles[j + 1]

====
